---- MODULE Spec2Model ----
(***************************************************************************)
(* WellCare hospital management API: the controller of                     *)
(* src/routes/hospitalRoutes.js (lines 329-544) over the two Mongoose      *)
(* collections of src/model/patientModel.js and src/model/testsModel.js.   *)
(*                                                                         *)
(* A test value is a string; it is modelled as a sequence of one-character *)
(* strings, so that split('/') and Number() are computed, not assumed.     *)
(* A path parameter is either an ObjectId or a string that does not cast   *)
(* to one.  The handlers are modelled twice: whole, one request at a time  *)
(* over a database that answers every call; and await by await, requests   *)
(* interleaving and any database call free to reject.                      *)
(***************************************************************************)
EXTENDS Integers, Sequences, FiniteSets, TLC

VARIABLES
    patients,       \* the Patient collection: _id -> document
    tests,          \* the Test collection: _id -> document
    now,            \* Date.now()
    nextPatientId,  \* the next ObjectId the Patient collection hands out
    nextTestId,     \* the next ObjectId the Test collection hands out
    created,        \* ids that addPatient answered 201 for
    removed,        \* ids that deletePatient answered 200 for
    last,           \* the last request and its response
    probe,          \* one classification: its input and its result
    requests        \* the requests received, each where its handler stands

vars ==
    <<patients, tests, now, nextPatientId, nextTestId, created, removed, last, probe, requests>>

(***************************************************************************)
(* Bounds of the model.                                                    *)
(***************************************************************************)
MaxPatients == 2
MaxTests == 2
MaxTime == 1
MaxReading == 185

(***************************************************************************)
(* Strings and numbers (JavaScript Number(), String.prototype.split).      *)
(***************************************************************************)
Digits == <<"0", "1", "2", "3", "4", "5", "6", "7", "8", "9">>

DigitChars == {Digits[i] : i \in 1..Len(Digits)}

DigitVal(c) == (CHOOSE i \in 1..Len(Digits) : Digits[i] = c) - 1

\* Number(x) of a non-numeric string, and of undefined, is NaN.
NaN == -1

RECURSIVE Decimal(_)
Decimal(s) ==
    IF s = <<>> THEN 0
    ELSE Decimal(SubSeq(s, 1, Len(s) - 1)) * 10 + DigitVal(s[Len(s)])

\* Number(s): the empty string is 0, a digit string its decimal value,
\* anything else (over this alphabet) NaN.
Number(s) ==
    IF \A i \in 1..Len(s) : s[i] \in DigitChars THEN Decimal(s) ELSE NaN

\* s.split('/'): the pieces of s between the separators.
RECURSIVE Split(_, _)
Split(s, sep) ==
    IF \A i \in 1..Len(s) : s[i] # sep THEN <<s>>
    ELSE LET k == CHOOSE i \in 1..Len(s) :
                      s[i] = sep /\ \A j \in 1..(i - 1) : s[j] # sep
         IN  <<SubSeq(s, 1, k - 1)>> \o Split(SubSeq(s, k + 1, Len(s)), sep)

\* a > b and a < b of JavaScript numbers: every comparison with NaN is false.
Gt(a, b) == a # NaN /\ b # NaN /\ a > b

Lt(a, b) == a # NaN /\ b # NaN /\ a < b

\* String(n) of a non-negative integer: how a client writes a reading.
RECURSIVE ToDigits(_)
ToDigits(n) ==
    IF n < 10 THEN <<Digits[n + 1]>>
    ELSE ToDigits(n \div 10) \o <<Digits[(n % 10) + 1]>>

(***************************************************************************)
(* The schemas.                                                            *)
(***************************************************************************)
TestTypes ==
    {"Blood Pressure", "Respiratory Rate", "Blood Oxygen Level", "Heartbeat Rate"}

\* The classification with the upper thresholds taken inclusively (>=).
IsCriticalInclusive(type, value) ==
    CASE type = "Blood Pressure" ->
            LET parts == Split(value, "/")
                systolic == Number(parts[1])
                diastolic == IF Len(parts) >= 2 THEN Number(parts[2]) ELSE NaN
            IN  ~Lt(systolic, 180) \/ Lt(systolic, 90)
                    \/ ~Lt(diastolic, 120) \/ Lt(diastolic, 60)
      [] type = "Respiratory Rate" ->
            LET rate == Number(value) IN ~Lt(rate, 30) \/ Lt(rate, 12)
      [] type = "Blood Oxygen Level" ->
            LET oxygenLevel == Number(value) IN Lt(oxygenLevel, 90)
      [] type = "Heartbeat Rate" ->
            LET heartRate == Number(value) IN ~Lt(heartRate, 100) \/ Lt(heartRate, 60)
      [] OTHER -> FALSE

\* The switch of updatePatientCriticalCondition on (type, value).
IsCritical(type, value) ==
    CASE type = "Blood Pressure" ->
            LET parts == Split(value, "/")
                systolic == Number(parts[1])
                diastolic == IF Len(parts) >= 2 THEN Number(parts[2]) ELSE NaN
            IN  Gt(systolic, 180) \/ Lt(systolic, 90)
                    \/ Gt(diastolic, 120) \/ Lt(diastolic, 60)
      [] type = "Respiratory Rate" ->
            LET rate == Number(value) IN Gt(rate, 30) \/ Lt(rate, 12)
      [] type = "Blood Oxygen Level" ->
            LET oxygenLevel == Number(value) IN Lt(oxygenLevel, 90)
      [] type = "Heartbeat Rate" ->
            LET heartRate == Number(value) IN Gt(heartRate, 100) \/ Lt(heartRate, 60)
      [] OTHER -> FALSE

\* A path parameter that is no ObjectId (such as '123'): casting it fails.
BadId == 0

IsObjectId(id) == id # BadId

\* required: true of a String path rejects a missing value and the empty string.
Has(body, f) == f \in DOMAIN body /\ body[f] # ""

\* The same of the value path, a string held as a sequence of characters.
HasValue(body) == "value" \in DOMAIN body /\ body.value # <<>>

\* patientSchema: name, age and gender are required.
ValidPatient(body) ==
    Has(body, "name") /\ "age" \in DOMAIN body /\ Has(body, "gender")

\* new Patient(body) with the flag defaulting to true.
NewPatientDefaultTrue(body) ==
    [name |-> body.name, age |-> body.age, gender |-> body.gender,
     criticalCondition |->
        IF "criticalCondition" \in DOMAIN body THEN body.criticalCondition ELSE TRUE]

\* new Patient(body): the schema's paths, criticalCondition defaulting to false.
NewPatient(body) ==
    [name |-> body.name, age |-> body.age, gender |-> body.gender,
     criticalCondition |->
        IF "criticalCondition" \in DOMAIN body THEN body.criticalCondition ELSE FALSE]

\* testSchema: type is required and one of the enum, value is required.
ValidTest(body) ==
    Has(body, "type") /\ body.type \in TestTypes /\ HasValue(body)

\* runValidators: true validates the paths the update sets, and only those.
ValidPatientUpdate(body) ==
    \A f \in DOMAIN body \cap {"name", "gender"} : Has(body, f)

ValidTestUpdate(body) ==
    /\ "type" \in DOMAIN body => body.type \in TestTypes
    /\ "value" \in DOMAIN body => HasValue(body)

\* findByIdAndUpdate with overwrite: the paths the update leaves out go back
\* to the schema's defaults (the flag to false).
MergeOverwrite(doc, body) ==
    [f \in DOMAIN doc |->
        IF f \in DOMAIN body THEN body[f]
        ELSE IF f = "criticalCondition" THEN FALSE ELSE doc[f]]

\* findByIdAndUpdate's $set: the paths of the update replace the document's.
Merge(doc, body) ==
    [f \in DOMAIN doc |-> IF f \in DOMAIN body THEN body[f] ELSE doc[f]]

\* A stored document as the response carries it, with its _id.
PatientDoc(ps, id) == [id |-> id] @@ ps[id]

TestDoc(ts, id) == [id |-> id] @@ ts[id]

\* .select('type value date createdAt updatedAt'): no patientId.
SelectedTestDoc(ts, id) ==
    [id |-> id, type |-> ts[id].type, value |-> ts[id].value, date |-> ts[id].date]

\* Test.find({ patientId }): the ids of the matching tests.
TestsOf(ts, pid) == {t \in DOMAIN ts : ts[t].patientId = pid}

\* .sort({ date: 1 }): oldest first.
SortAscending(ts, S) ==
    {s \in [1..Cardinality(S) -> S] :
        /\ \A i, j \in 1..Cardinality(S) : i # j => s[i] # s[j]
        /\ \A i \in 1..(Cardinality(S) - 1) : ts[s[i]].date <= ts[s[i + 1]].date}

\* .sort({ date: -1 }): every order of the ids with dates descending; the
\* order of tests of one date is the store's choice.
SortByDateDesc(ts, S) ==
    {s \in [1..Cardinality(S) -> S] :
        /\ \A i, j \in 1..Cardinality(S) : i # j => s[i] # s[j]
        /\ \A i \in 1..(Cardinality(S) - 1) : ts[s[i]].date >= ts[s[i + 1]].date}

\* Patient.find(...): the matching documents, each once, in the store's order.
AnyOrder(S) ==
    {s \in [1..Cardinality(S) -> S] :
        \A i, j \in 1..Cardinality(S) : i # j => s[i] # s[j]}

\* updatePatientCriticalCondition(patientId): the patient stores it can leave.
\* findByIdAndUpdate of an absent patient writes nothing.
UpdatePatientCriticalCondition(ps, ts, patientId) ==
    IF TestsOf(ts, patientId) = {} \/ patientId \notin DOMAIN ps THEN {ps}
    ELSE {[ps EXCEPT ![patientId].criticalCondition =
                        IsCritical(ts[s[1]].type, ts[s[1]].value)] :
            s \in SortByDateDesc(ts, TestsOf(ts, patientId))}

(***************************************************************************)
(* Requests.                                                               *)
(***************************************************************************)
PatientIds == 1..MaxPatients

TestIds == 1..MaxTests

\* The :id and :testId path parameters a request can carry.
RequestPatientIds == {BadId} \cup PatientIds

RequestTestIds == {BadId} \cup TestIds

\* The value strings "200/70" and "110/70".
Critical200over70 == <<"2", "0", "0", "/", "7", "0">>

Normal110over70 == <<"1", "1", "0", "/", "7", "0">>

\* Bodies of POST /patients: complete, complete with the flag supplied, and
\* the body of the controller test, which has no gender.
PatientPayloads ==
    {[name |-> "John Doe", age |-> 30, gender |-> "male"],
     [name |-> "John Doe", age |-> 30, gender |-> "male", criticalCondition |-> TRUE],
     [name |-> "John Doe", age |-> 30]}

\* Bodies of PUT /patients/:id: the flag set either way, and an empty name.
PatientUpdates ==
    {[criticalCondition |-> TRUE], [criticalCondition |-> FALSE], [name |-> ""]}

\* Bodies of POST /patients/:id/tests: two blood pressures, a type outside
\* the enum (the 'Heart Rate' of the controller test), and a body without value.
TestPayloads ==
    {[type |-> "Blood Pressure", value |-> Critical200over70],
     [type |-> "Blood Pressure", value |-> Normal110over70],
     [type |-> "Heart Rate", value |-> <<"7", "2">>],
     [type |-> "Blood Pressure"]}

\* Bodies of PUT /patients/:id/tests/:testId.
TestUpdates ==
    {[value |-> Critical200over70], [value |-> Normal110over70], [type |-> "Heart Rate"]}

NoParams == [x \in {} |-> BadId]

NoBody == [x \in {} |-> ""]

NoProbe == [type |-> "", systolic |-> 0, diastolic |-> 0, done |-> FALSE, result |-> FALSE]

\* res.status(status).json(...): the request with what was sent back.
Response(op, params, body, status, ps, ts) ==
    [op |-> op, params |-> params, body |-> body, status |-> status,
     patients |-> ps, tests |-> ts]

Init ==
    /\ patients = [i \in {} |-> NoBody]
    /\ tests = [i \in {} |-> NoBody]
    /\ now = 0
    /\ nextPatientId = 1
    /\ nextTestId = 1
    /\ created = {}
    /\ removed = {}
    /\ last = Response("none", NoParams, NoBody, 0, <<>>, <<>>)
    /\ probe = NoProbe
    /\ requests = <<>>

(***************************************************************************)
(* The controller, one action per handler; requests run one at a time.     *)
(***************************************************************************)
AddPatient ==
    \E body \in PatientPayloads :
        /\ IF ValidPatient(body)
           THEN /\ nextPatientId <= MaxPatients
                /\ patients' = (nextPatientId :> NewPatient(body)) @@ patients
                /\ nextPatientId' = nextPatientId + 1
                /\ created' = created \cup {nextPatientId}
                /\ last' = Response("addPatient", NoParams, body, 201,
                                    <<PatientDoc(patients', nextPatientId)>>, <<>>)
           ELSE /\ last' = Response("addPatient", NoParams, body, 400, <<>>, <<>>)
                /\ UNCHANGED <<patients, nextPatientId, created>>
        /\ UNCHANGED <<tests, now, nextTestId, removed, probe, requests>>

\* Patient.find({ criticalCondition: false }).
NonCriticalPatients(ps) == {p \in DOMAIN ps : ps[p].criticalCondition = FALSE}

\* Patient.find(): every patient.
AllPatients(ps) == DOMAIN ps

GetAllPatients ==
    \E s \in AnyOrder(AllPatients(patients)) :
        /\ last' = Response("getAllPatients", NoParams, NoBody, 200,
                            [i \in 1..Len(s) |-> PatientDoc(patients, s[i])], <<>>)
        /\ UNCHANGED <<patients, tests, now, nextPatientId, nextTestId, created, removed, probe, requests>>

GetPatientById ==
    \E id \in RequestPatientIds :
        /\ last' =
            IF ~IsObjectId(id)
            THEN Response("getPatientById", [id |-> id], NoBody, 500, <<>>, <<>>)
            ELSE IF id \notin DOMAIN patients
            THEN Response("getPatientById", [id |-> id], NoBody, 404, <<>>, <<>>)
            ELSE Response("getPatientById", [id |-> id], NoBody, 200,
                          <<PatientDoc(patients, id)>>, <<>>)
        /\ UNCHANGED <<patients, tests, now, nextPatientId, nextTestId, created, removed, probe, requests>>

\* The bodies a run draws from are a parameter of the handlers that read one.
AddTestForPatientOf(payloads) ==
    \E id \in RequestPatientIds, body \in payloads :
        /\ IF IsObjectId(id) /\ ValidTest(body)
           THEN /\ nextTestId <= MaxTests
                /\ tests' = (nextTestId :>
                                [patientId |-> id, date |-> now,
                                 type |-> body.type, value |-> body.value]) @@ tests
                /\ nextTestId' = nextTestId + 1
                /\ patients' \in UpdatePatientCriticalCondition(patients, tests', id)
                /\ last' = Response("addTestForPatient", [id |-> id], body, 201,
                                    <<>>, <<TestDoc(tests', nextTestId)>>)
           ELSE /\ last' = Response("addTestForPatient", [id |-> id], body, 400, <<>>, <<>>)
                /\ UNCHANGED <<patients, tests, nextTestId>>
        /\ UNCHANGED <<now, nextPatientId, created, removed, probe, requests>>

AddTestForPatient == AddTestForPatientOf(TestPayloads)

GetTestsForPatient ==
    \E id \in RequestPatientIds :
        /\ IF ~IsObjectId(id)
           THEN last' = Response("getTestsForPatient", [id |-> id], NoBody, 500, <<>>, <<>>)
           ELSE \E s \in SortByDateDesc(tests, TestsOf(tests, id)) :
                    last' = Response("getTestsForPatient", [id |-> id], NoBody, 200, <<>>,
                                     [i \in 1..Len(s) |-> SelectedTestDoc(tests, s[i])])
        /\ UNCHANGED <<patients, tests, now, nextPatientId, nextTestId, created, removed, probe, requests>>

GetPatientHistory ==
    \E id \in RequestPatientIds :
        /\ IF ~IsObjectId(id)
           THEN last' = Response("getPatientHistory", [id |-> id], NoBody, 500, <<>>, <<>>)
           ELSE IF id \notin DOMAIN patients
           THEN last' = Response("getPatientHistory", [id |-> id], NoBody, 404, <<>>, <<>>)
           ELSE \E s \in SortByDateDesc(tests, TestsOf(tests, id)) :
                    last' = Response("getPatientHistory", [id |-> id], NoBody, 200,
                                     <<PatientDoc(patients, id)>>,
                                     [i \in 1..Len(s) |-> TestDoc(tests, s[i])])
        /\ UNCHANGED <<patients, tests, now, nextPatientId, nextTestId, created, removed, probe, requests>>

\* Patient.find({ criticalCondition: { $exists: true } }): the filter on the
\* flag's presence, not its value.
FlaggedPatients(ps) == DOMAIN ps

\* Patient.find({ criticalCondition: true }).
CriticalPatients(ps) == {p \in DOMAIN ps : ps[p].criticalCondition = TRUE}

GetCriticalPatients ==
    \E s \in AnyOrder(CriticalPatients(patients)) :
        /\ last' = Response("getCriticalPatients", NoParams, NoBody, 200,
                            [i \in 1..Len(s) |-> PatientDoc(patients, s[i])], <<>>)
        /\ UNCHANGED <<patients, tests, now, nextPatientId, nextTestId, created, removed, probe, requests>>

UpdatePatientOf(updates) ==
    \E id \in RequestPatientIds, body \in updates :
        /\ IF ~IsObjectId(id) \/ ~ValidPatientUpdate(body)
           THEN /\ last' = Response("updatePatient", [id |-> id], body, 400, <<>>, <<>>)
                /\ UNCHANGED patients
           ELSE IF id \notin DOMAIN patients
           THEN /\ last' = Response("updatePatient", [id |-> id], body, 404, <<>>, <<>>)
                /\ UNCHANGED patients
           ELSE /\ patients' = [patients EXCEPT ![id] = Merge(@, body)]
                /\ last' = Response("updatePatient", [id |-> id], body, 200,
                                    <<PatientDoc(patients', id)>>, <<>>)
        /\ UNCHANGED <<tests, now, nextPatientId, nextTestId, created, removed, probe, requests>>

UpdatePatient == UpdatePatientOf(PatientUpdates)

\* findByIdAndDelete: the collection without the document.
Remove(coll, id) == [i \in DOMAIN coll \ {id} |-> coll[i]]

\* deletePatient that also deletes the patient's tests.
DeletePatientCascade ==
    \E id \in DOMAIN patients :
        /\ patients' = Remove(patients, id)
        /\ tests' = [t \in DOMAIN tests \ TestsOf(tests, id) |-> tests[t]]
        /\ removed' = removed \cup {id}
        /\ last' = Response("deletePatient", [id |-> id], NoBody, 200, <<>>, <<>>)
        /\ UNCHANGED <<now, nextPatientId, nextTestId, created, probe, requests>>

DeletePatient ==
    \E id \in RequestPatientIds :
        /\ IF ~IsObjectId(id)
           THEN /\ last' = Response("deletePatient", [id |-> id], NoBody, 500, <<>>, <<>>)
                /\ UNCHANGED <<patients, removed>>
           ELSE IF id \notin DOMAIN patients
           THEN /\ last' = Response("deletePatient", [id |-> id], NoBody, 404, <<>>, <<>>)
                /\ UNCHANGED <<patients, removed>>
           ELSE /\ patients' = Remove(patients, id)
                /\ removed' = removed \cup {id}
                /\ last' = Response("deletePatient", [id |-> id], NoBody, 200, <<>>, <<>>)
        /\ UNCHANGED <<tests, now, nextPatientId, nextTestId, created, probe, requests>>

\* updateTest, deleteTest and getTestById read req.params.testId alone; the
\* patient id of the path is carried and never looked at.
UpdateTest ==
    \E id \in PatientIds, testId \in RequestTestIds, body \in TestUpdates :
        /\ IF ~IsObjectId(testId) \/ ~ValidTestUpdate(body)
           THEN /\ last' = Response("updateTest", [id |-> id, testId |-> testId],
                                    body, 400, <<>>, <<>>)
                /\ UNCHANGED tests
           ELSE IF testId \notin DOMAIN tests
           THEN /\ last' = Response("updateTest", [id |-> id, testId |-> testId],
                                    body, 404, <<>>, <<>>)
                /\ UNCHANGED tests
           ELSE /\ tests' = [tests EXCEPT ![testId] = Merge(@, body)]
                /\ last' = Response("updateTest", [id |-> id, testId |-> testId],
                                    body, 200, <<>>, <<TestDoc(tests', testId)>>)
        /\ UNCHANGED <<patients, now, nextPatientId, nextTestId, created, removed, probe, requests>>

\* deleteTest that recomputes the owning patient's flag afterwards.
DeleteTestRecompute ==
    \E id \in PatientIds, testId \in DOMAIN tests :
        /\ tests' = Remove(tests, testId)
        /\ patients' \in
              UpdatePatientCriticalCondition(patients, tests', tests[testId].patientId)
        /\ last' = Response("deleteTest", [id |-> id, testId |-> testId],
                             NoBody, 200, <<>>, <<>>)
        /\ UNCHANGED <<now, nextPatientId, nextTestId, created, removed, probe, requests>>

DeleteTest ==
    \E id \in PatientIds, testId \in RequestTestIds :
        /\ IF ~IsObjectId(testId)
           THEN /\ last' = Response("deleteTest", [id |-> id, testId |-> testId],
                                    NoBody, 500, <<>>, <<>>)
                /\ UNCHANGED tests
           ELSE IF testId \notin DOMAIN tests
           THEN /\ last' = Response("deleteTest", [id |-> id, testId |-> testId],
                                    NoBody, 404, <<>>, <<>>)
                /\ UNCHANGED tests
           ELSE /\ tests' = Remove(tests, testId)
                /\ last' = Response("deleteTest", [id |-> id, testId |-> testId],
                                    NoBody, 200, <<>>, <<>>)
        /\ UNCHANGED <<patients, now, nextPatientId, nextTestId, created, removed, probe, requests>>

GetTestById ==
    \E patientId \in PatientIds, testId \in RequestTestIds :
        /\ last' =
            IF ~IsObjectId(testId)
            THEN Response("getTestById", [patientId |-> patientId, testId |-> testId],
                          NoBody, 500, <<>>, <<>>)
            ELSE IF testId \notin DOMAIN tests
            THEN Response("getTestById", [patientId |-> patientId, testId |-> testId],
                          NoBody, 404, <<>>, <<>>)
            ELSE Response("getTestById", [patientId |-> patientId, testId |-> testId],
                          NoBody, 200, <<>>, <<TestDoc(tests, testId)>>)
        /\ UNCHANGED <<patients, tests, now, nextPatientId, nextTestId, created, removed, probe, requests>>

\* Time passes between requests; two requests can fall in one millisecond.
Tick ==
    /\ now < MaxTime
    /\ now' = now + 1
    /\ UNCHANGED <<patients, tests, nextPatientId, nextTestId, created, removed, last, probe, requests>>

Next ==
    \/ Tick
    \/ AddPatient
    \/ GetAllPatients
    \/ GetPatientById
    \/ AddTestForPatient
    \/ GetTestsForPatient
    \/ GetPatientHistory
    \/ GetCriticalPatients
    \/ UpdatePatient
    \/ DeletePatient
    \/ UpdateTest
    \/ DeleteTest
    \/ GetTestById

Spec == Init /\ [][Next]_vars

\* Runs whose only writes are addPatient and addTestForPatient.
NextAdds ==
    \/ Tick
    \/ AddPatient
    \/ AddTestForPatient

SpecAdds == Init /\ [][NextAdds]_vars

(***************************************************************************)
(* The classification alone, on every reading up to MaxReading.            *)
(***************************************************************************)
\* The value string of a reading: "systolic/diastolic" for a blood pressure,
\* the bare number otherwise.
ValueOf(type, systolic, diastolic) ==
    IF type = "Blood Pressure"
    THEN ToDigits(systolic) \o <<"/">> \o ToDigits(diastolic)
    ELSE ToDigits(systolic)

ProbeTypes == TestTypes \cup {"Heart Rate"}

InitClassify ==
    /\ patients = [i \in {} |-> NoBody]
    /\ tests = [i \in {} |-> NoBody]
    /\ now = 0
    /\ nextPatientId = 1
    /\ nextTestId = 1
    /\ created = {}
    /\ removed = {}
    /\ last = Response("none", NoParams, NoBody, 0, <<>>, <<>>)
    /\ \E type \in ProbeTypes, systolic \in 0..MaxReading, diastolic \in 0..MaxReading :
        /\ type # "Blood Pressure" => diastolic = 0
        /\ probe = [type |-> type, systolic |-> systolic, diastolic |-> diastolic,
                    done |-> FALSE, result |-> FALSE]
    /\ requests = <<>>

Classify ==
    /\ ~probe.done
    /\ probe' = [probe EXCEPT
                    !.done = TRUE,
                    !.result = IsCritical(probe.type,
                                          ValueOf(probe.type, probe.systolic, probe.diastolic))]
    /\ UNCHANGED <<patients, tests, now, nextPatientId, nextTestId, created, removed, last, requests>>

SpecClassify == InitClassify /\ [][Classify]_vars

(***************************************************************************)
(* The writes alone, with the update body of the controller test.          *)
(***************************************************************************)
\* Bodies of PUT /patients/:id, with { name: 'John Updated', age: 31 }.
MorePatientUpdates ==
    PatientUpdates \cup {[name |-> "John Updated", age |-> 31]}

UpdatePatientMore == UpdatePatientOf(MorePatientUpdates)

NextWrites ==
    \/ Tick
    \/ AddPatient
    \/ AddTestForPatient
    \/ UpdatePatientMore
    \/ DeletePatient
    \/ UpdateTest
    \/ DeleteTest

SpecWrites == Init /\ [][NextWrites]_vars

(***************************************************************************)
(* The handlers await by await.  A request is received, then each step is  *)
(* one database call of its handler settling, with the code that runs up   *)
(* to the next await; requests interleave between the steps, and any call  *)
(* can reject.                                                             *)
(***************************************************************************)
MaxRequests == 2

\* The handlers of the controller.
Handlers ==
    {"addPatient", "getAllPatients", "getPatientById", "addTestForPatient",
     "getTestsForPatient", "getPatientHistory", "getCriticalPatients",
     "updatePatient", "deletePatient", "updateTest", "deleteTest", "getTestById"}

\* The first database call of each handler.
FirstCall(op) ==
    CASE op \in {"addPatient", "addTestForPatient"} -> "save"
      [] op \in {"getAllPatients", "getCriticalPatients", "getTestsForPatient"} -> "find"
      [] op \in {"getPatientById", "getPatientHistory", "getTestById"} -> "findById"
      [] op \in {"updatePatient", "updateTest"} -> "findByIdAndUpdate"
      [] op \in {"deletePatient", "deleteTest"} -> "findByIdAndDelete"

\* The path parameters and bodies a request to a handler can carry.
RequestsOf(op) ==
    CASE op = "addPatient" ->
            {[params |-> NoParams, body |-> b] : b \in PatientPayloads}
      [] op \in {"getAllPatients", "getCriticalPatients"} ->
            {[params |-> NoParams, body |-> NoBody]}
      [] op \in {"getPatientById", "getTestsForPatient", "getPatientHistory",
                 "deletePatient"} ->
            {[params |-> [id |-> id], body |-> NoBody] : id \in RequestPatientIds}
      [] op = "addTestForPatient" ->
            {[params |-> [id |-> id], body |-> b] :
                id \in RequestPatientIds, b \in TestPayloads}
      [] op = "updatePatient" ->
            {[params |-> [id |-> id], body |-> b] :
                id \in RequestPatientIds, b \in PatientUpdates}
      [] op = "updateTest" ->
            {[params |-> [id |-> id, testId |-> t], body |-> b] :
                id \in PatientIds, t \in RequestTestIds, b \in TestUpdates}
      [] op = "deleteTest" ->
            {[params |-> [id |-> id, testId |-> t], body |-> NoBody] :
                id \in PatientIds, t \in RequestTestIds}
      [] op = "getTestById" ->
            {[params |-> [patientId |-> id, testId |-> t], body |-> NoBody] :
                id \in PatientIds, t \in RequestTestIds}

\* A request as its handler starts: new Test(...) takes its date here, before
\* the first await.  found is what the find of the latest test returned,
\* saved the tests the request stored, flagged the patients whose flag it
\* changed, sent the number of responses written so far.
Request(op, params, body) ==
    [op |-> op, params |-> params, body |-> body, pc |-> FirstCall(op),
     date |-> now, found |-> <<>>, saved |-> {}, flagged |-> {},
     status |-> 0, sent |-> 0]

\* res.status(status).json(...) as the last statement the handler runs.
Answer(req, status) ==
    [req EXCEPT !.status = status, !.sent = @ + 1, !.pc = "done"]

\* The 404 branch without its return: the handler goes on to res.json.
NotFoundNoReturn(req) ==
    [req EXCEPT !.status = 404, !.sent = @ + 2, !.pc = "done"]

\* if (!doc) return res.status(404).json(...).
NotFound(req) == Answer(req, 404)

\* The status of the catch block of each handler.
CatchStatus(op) ==
    IF op \in {"addPatient", "addTestForPatient", "updatePatient", "updateTest"}
    THEN 400
    ELSE 500

\* A request arrives at one of the handlers ops.
Receive(ops) ==
    /\ Len(requests) < MaxRequests
    /\ \E op \in ops : \E rq \in RequestsOf(op) :
            requests' = Append(requests, Request(op, rq.params, rq.body))
    /\ UNCHANGED <<patients, tests, now, nextPatientId, nextTestId, created, removed,
                   last, probe>>

\* The pending call of request r rejects (a validation or cast error, or the
\* database failing) and the catch block answers.
Rejects(r) ==
    /\ r \in DOMAIN requests
    /\ requests[r].pc # "done"
    /\ requests' = [requests EXCEPT ![r] = Answer(@, CatchStatus(@.op))]
    /\ UNCHANGED <<patients, tests, now, nextPatientId, nextTestId, created, removed,
                   last, probe>>

\* r stands at the call pc of the handler op.
At(r, op, pc) ==
    /\ r \in DOMAIN requests
    /\ requests[r].op = op
    /\ requests[r].pc = pc

\* addPatient: patient.save() resolves.
PatientSaved(r) ==
    /\ At(r, "addPatient", "save")
    /\ ValidPatient(requests[r].body)
    /\ nextPatientId <= MaxPatients
    /\ patients' = (nextPatientId :> NewPatient(requests[r].body)) @@ patients
    /\ nextPatientId' = nextPatientId + 1
    /\ created' = created \cup {nextPatientId}
    /\ requests' = [requests EXCEPT ![r] = Answer(@, 201)]
    /\ UNCHANGED <<tests, now, nextTestId, removed, last, probe>>

\* getAllPatients and getCriticalPatients: Patient.find resolves.
PatientsFound(r) ==
    /\ \/ At(r, "getAllPatients", "find")
       \/ At(r, "getCriticalPatients", "find")
    /\ requests' = [requests EXCEPT ![r] = Answer(@, 200)]
    /\ UNCHANGED <<patients, tests, now, nextPatientId, nextTestId, created, removed,
                   last, probe>>

\* getPatientById and getPatientHistory: Patient.findById resolves.
PatientFoundById(r) ==
    /\ \/ At(r, "getPatientById", "findById")
       \/ At(r, "getPatientHistory", "findById")
    /\ IsObjectId(requests[r].params.id)
    /\ requests' =
        [requests EXCEPT ![r] =
            IF @.params.id \notin DOMAIN patients THEN NotFound(@)
            ELSE IF @.op = "getPatientById" THEN Answer(@, 200)
            ELSE [@ EXCEPT !.pc = "find"]]
    /\ UNCHANGED <<patients, tests, now, nextPatientId, nextTestId, created, removed,
                   last, probe>>

\* addTestForPatient: test.save() resolves; the handler goes on to
\* updatePatientCriticalCondition.
TestSaved(r) ==
    /\ At(r, "addTestForPatient", "save")
    /\ IsObjectId(requests[r].params.id)
    /\ ValidTest(requests[r].body)
    /\ nextTestId <= MaxTests
    /\ tests' = (nextTestId :>
                    [patientId |-> requests[r].params.id, date |-> requests[r].date,
                     type |-> requests[r].body.type,
                     value |-> requests[r].body.value]) @@ tests
    /\ nextTestId' = nextTestId + 1
    /\ requests' = [requests EXCEPT ![r].saved = {nextTestId}, ![r].pc = "findLatest"]
    /\ UNCHANGED <<patients, now, nextPatientId, created, removed, last, probe>>

\* updatePatientCriticalCondition: Test.find(...).sort({ date: -1 }).limit(1)
\* resolves; with no test there is nothing to write and the handler answers.
LatestFound(r) ==
    /\ At(r, "addTestForPatient", "findLatest")
    /\ \E s \in SortByDateDesc(tests, TestsOf(tests, requests[r].params.id)) :
            requests' =
                [requests EXCEPT ![r] =
                    IF Len(s) = 0 THEN Answer(@, 201)
                    ELSE [@ EXCEPT !.found = <<[type |-> tests[s[1]].type,
                                                value |-> tests[s[1]].value]>>,
                                   !.pc = "writeFlag"]]
    /\ UNCHANGED <<patients, tests, now, nextPatientId, nextTestId, created, removed,
                   last, probe>>

\* The patient store after findByIdAndUpdate(id, { criticalCondition: flag }).
WithFlag(ps, id, flag) ==
    IF id \in DOMAIN ps THEN [ps EXCEPT ![id].criticalCondition = flag] ELSE ps

\* The request with the patient of its path noted when the write changed it.
Flagged(req, before, after) ==
    [req EXCEPT !.flagged = IF after # before THEN {req.params.id} ELSE {}]

\* A write of the flag that looks the latest test up again as it writes.
FlagWrittenFresh(r) ==
    /\ At(r, "addTestForPatient", "writeFlag")
    /\ patients' \in UpdatePatientCriticalCondition(patients, tests, requests[r].params.id)
    /\ requests' = [requests EXCEPT ![r] = Answer(Flagged(@, patients, patients'), 201)]
    /\ UNCHANGED <<tests, now, nextPatientId, nextTestId, created, removed, last, probe>>

\* updatePatientCriticalCondition: the switch on the test found, then
\* Patient.findByIdAndUpdate resolves; the handler answers 201.
FlagWritten(r) ==
    /\ At(r, "addTestForPatient", "writeFlag")
    /\ patients' = WithFlag(patients, requests[r].params.id,
                            IsCritical(requests[r].found[1].type,
                                       requests[r].found[1].value))
    /\ requests' = [requests EXCEPT ![r] = Answer(Flagged(@, patients, patients'), 201)]
    /\ UNCHANGED <<tests, now, nextPatientId, nextTestId, created, removed, last, probe>>

\* getTestsForPatient, and getPatientHistory after its patient: Test.find
\* resolves.
TestsFound(r) ==
    /\ \/ At(r, "getTestsForPatient", "find")
       \/ At(r, "getPatientHistory", "find")
    /\ IsObjectId(requests[r].params.id)
    /\ requests' = [requests EXCEPT ![r] = Answer(@, 200)]
    /\ UNCHANGED <<patients, tests, now, nextPatientId, nextTestId, created, removed,
                   last, probe>>

\* updatePatient: Patient.findByIdAndUpdate resolves.
PatientUpdated(r) ==
    /\ At(r, "updatePatient", "findByIdAndUpdate")
    /\ IsObjectId(requests[r].params.id)
    /\ ValidPatientUpdate(requests[r].body)
    /\ IF requests[r].params.id \notin DOMAIN patients
       THEN /\ requests' = [requests EXCEPT ![r] = NotFound(@)]
            /\ UNCHANGED patients
       ELSE /\ patients' = [patients EXCEPT
                                ![requests[r].params.id] = Merge(@, requests[r].body)]
            /\ requests' = [requests EXCEPT ![r] = Answer(@, 200)]
    /\ UNCHANGED <<tests, now, nextPatientId, nextTestId, created, removed, last, probe>>

\* deletePatient: Patient.findByIdAndDelete resolves.
PatientDeleted(r) ==
    /\ At(r, "deletePatient", "findByIdAndDelete")
    /\ IsObjectId(requests[r].params.id)
    /\ IF requests[r].params.id \notin DOMAIN patients
       THEN /\ requests' = [requests EXCEPT ![r] = NotFound(@)]
            /\ UNCHANGED <<patients, removed>>
       ELSE /\ patients' = Remove(patients, requests[r].params.id)
            /\ removed' = removed \cup {requests[r].params.id}
            /\ requests' = [requests EXCEPT ![r] = Answer(@, 200)]
    /\ UNCHANGED <<tests, now, nextPatientId, nextTestId, created, last, probe>>

\* updateTest: Test.findByIdAndUpdate resolves.
TestUpdated(r) ==
    /\ At(r, "updateTest", "findByIdAndUpdate")
    /\ IsObjectId(requests[r].params.testId)
    /\ ValidTestUpdate(requests[r].body)
    /\ IF requests[r].params.testId \notin DOMAIN tests
       THEN /\ requests' = [requests EXCEPT ![r] = NotFound(@)]
            /\ UNCHANGED tests
       ELSE /\ tests' = [tests EXCEPT
                            ![requests[r].params.testId] = Merge(@, requests[r].body)]
            /\ requests' = [requests EXCEPT ![r] = Answer(@, 200)]
    /\ UNCHANGED <<patients, now, nextPatientId, nextTestId, created, removed, last, probe>>

\* deleteTest: Test.findByIdAndDelete resolves.
TestDeleted(r) ==
    /\ At(r, "deleteTest", "findByIdAndDelete")
    /\ IsObjectId(requests[r].params.testId)
    /\ IF requests[r].params.testId \notin DOMAIN tests
       THEN /\ requests' = [requests EXCEPT ![r] = NotFound(@)]
            /\ UNCHANGED tests
       ELSE /\ tests' = Remove(tests, requests[r].params.testId)
            /\ requests' = [requests EXCEPT ![r] = Answer(@, 200)]
    /\ UNCHANGED <<patients, now, nextPatientId, nextTestId, created, removed, last, probe>>

\* getTestById: Test.findById resolves.
TestFoundById(r) ==
    /\ At(r, "getTestById", "findById")
    /\ IsObjectId(requests[r].params.testId)
    /\ requests' =
        [requests EXCEPT ![r] =
            IF @.params.testId \notin DOMAIN tests THEN NotFound(@) ELSE Answer(@, 200)]
    /\ UNCHANGED <<patients, tests, now, nextPatientId, nextTestId, created, removed,
                   last, probe>>

\* The pending call of request r settles, either way.
Settles(r) ==
    \/ Rejects(r)
    \/ PatientSaved(r)
    \/ PatientsFound(r)
    \/ PatientFoundById(r)
    \/ TestSaved(r)
    \/ LatestFound(r)
    \/ FlagWritten(r)
    \/ TestsFound(r)
    \/ PatientUpdated(r)
    \/ PatientDeleted(r)
    \/ TestUpdated(r)
    \/ TestDeleted(r)
    \/ TestFoundById(r)

NextRequests ==
    \/ Receive(Handlers)
    \/ \E r \in 1..MaxRequests : Settles(r)

\* Requests to every handler, interleaved; every database call settles.
SpecRequests ==
    Init /\ [][NextRequests]_vars /\ \A r \in 1..MaxRequests : WF_vars(Settles(r))

\* Patients added one at a time, addTestForPatient requests interleaved.
NextConcurrentAdds ==
    \/ Tick
    \/ AddPatient
    \/ Receive({"addTestForPatient"})
    \/ \E r \in 1..MaxRequests : Rejects(r)
    \/ \E r \in 1..MaxRequests : TestSaved(r)
    \/ \E r \in 1..MaxRequests : LatestFound(r)
    \/ \E r \in 1..MaxRequests : FlagWritten(r)

SpecConcurrentAdds == Init /\ [][NextConcurrentAdds]_vars

\* Bodies of POST /patients/:id/tests whose value is the string "abc".
NonNumericPayloads ==
    {[type |-> type, value |-> <<"a", "b", "c">>] : type \in TestTypes}

AddTestForPatientNonNumeric == AddTestForPatientOf(NonNumericPayloads)

NextNonNumeric ==
    \/ Tick
    \/ AddPatient
    \/ AddTestForPatientNonNumeric

SpecNonNumeric == Init /\ [][NextNonNumeric]_vars

(***************************************************************************)
(* Properties.                                                             *)
(***************************************************************************)
\* A step in which the handler op answered a request (the patient and test
\* stores unprimed are the stores before it).
Handled(op) == now' = now /\ last'.op = op

\* The tests of patient p that no other test of p is dated after.
LatestOf(p) ==
    {t \in TestsOf(tests, p) : \A u \in TestsOf(tests, p) : tests[u].date <= tests[t].date}

\* C1: when the only writes are addPatient and addTestForPatient, after a
\* successful addTestForPatient(p) on an existing patient p the flag of p is
\* the classification of a most recent test of p by date; when the new test
\* is dated after every other test of p it is the classification of the new
\* test: "200/70" sets the flag, "110/70" clears it.
C1_FlagFollowsLatestTest ==
    (last.op = "addTestForPatient" /\ last.status = 201
        /\ last.params.id \in DOMAIN patients) =>
        LET p == last.params.id
            new == last.tests[1].id
            flag == patients[p].criticalCondition
        IN  /\ new \in TestsOf(tests, p)
            /\ \E t \in LatestOf(p) : flag = IsCritical(tests[t].type, tests[t].value)
            /\ LatestOf(p) = {new} =>
                /\ flag = IsCritical(tests[new].type, tests[new].value)
                /\ (tests[new].type = "Blood Pressure"
                        /\ tests[new].value = Critical200over70) => flag = TRUE
                /\ (tests[new].type = "Blood Pressure"
                        /\ tests[new].value = Normal110over70) => flag = FALSE

\* A "110/70" test added after a "200/70" test of the same patient has
\* cleared the flag.
C1_Witness ==
    /\ last.op = "addTestForPatient" /\ last.status = 201
    /\ last.params.id \in DOMAIN patients
    /\ LET p == last.params.id
           new == last.tests[1].id
       IN  /\ LatestOf(p) = {new}
           /\ tests[new].value = Normal110over70
           /\ \E u \in TestsOf(tests, p) : tests[u].value = Critical200over70
           /\ patients[p].criticalCondition = FALSE

\* The thresholds of the classification, on numbers.
Thresholds(type, systolic, diastolic) ==
    CASE type = "Blood Pressure" ->
            systolic > 180 \/ systolic < 90 \/ diastolic > 120 \/ diastolic < 60
      [] type = "Respiratory Rate" -> systolic > 30 \/ systolic < 12
      [] type = "Blood Oxygen Level" -> systolic < 90
      [] type = "Heartbeat Rate" -> systolic > 100 \/ systolic < 60
      [] OTHER -> FALSE

\* C2: the classification of (type, value) equals the thresholds for every
\* reading: blood pressure iff systolic > 180 or < 90 or diastolic > 120 or
\* < 60, respiratory rate iff > 30 or < 12, blood oxygen level iff < 90,
\* heartbeat rate iff > 100 or < 60; the boundary values are non-critical and
\* a type outside the four yields non-critical.
C2_ClassificationMatchesThresholds ==
    probe.done =>
        /\ probe.result = Thresholds(probe.type, probe.systolic, probe.diastolic)
        /\ (probe.type = "Blood Pressure" /\ probe.systolic \in {90, 180}
                /\ probe.diastolic \in {60, 120}) => probe.result = FALSE
        /\ (probe.type = "Respiratory Rate" /\ probe.systolic \in {12, 30}) =>
                probe.result = FALSE
        /\ (probe.type = "Blood Oxygen Level" /\ probe.systolic = 90) =>
                probe.result = FALSE
        /\ (probe.type = "Heartbeat Rate" /\ probe.systolic \in {60, 100}) =>
                probe.result = FALSE
        /\ probe.type \notin TestTypes => probe.result = FALSE

\* The blood pressure "180/120", both readings on their upper boundary, was
\* classified non-critical.
C2_Witness ==
    /\ probe.done
    /\ probe.type = "Blood Pressure"
    /\ probe.systolic = 180 /\ probe.diastolic = 120
    /\ probe.result = FALSE

\* C3: updateTest and deleteTest, successful or not, leave every patient
\* record as it was.
C3_TestEditsLeavePatients ==
    [][(Handled("updateTest") \/ Handled("deleteTest")) => patients' = patients]_vars

\* The only test of an existing patient was deleted and the patient's flag,
\* set by that test, is still true.
C3_Witness ==
    /\ last.op = "deleteTest" /\ last.status = 200
    /\ \E p \in DOMAIN patients :
        /\ TestsOf(tests, p) = {}
        /\ patients[p].criticalCondition = TRUE
        /\ \A q \in DOMAIN patients \ {p} : patients[q].criticalCondition = FALSE

\* The handlers that look a patient up by the :id of the path, and those that
\* look a test up by its :testId.
PatientLookups == {"getPatientById", "updatePatient", "deletePatient", "getPatientHistory"}

TestLookups == {"getTestById", "updateTest", "deleteTest"}

\* C4: getPatientById, updatePatient, deletePatient and getPatientHistory with
\* a patient id that is not in the patient store, and getTestById, updateTest
\* and deleteTest with a test id that is not in the test store, answer 404
\* and leave both stores unchanged.
C4_AbsentIdAnswers404 ==
    [][/\ \A op \in PatientLookups :
            (Handled(op) /\ last'.params.id \notin DOMAIN patients) =>
                last'.status = 404 /\ patients' = patients /\ tests' = tests
       /\ \A op \in TestLookups :
            (Handled(op) /\ last'.params.testId \notin DOMAIN tests) =>
                last'.status = 404 /\ patients' = patients /\ tests' = tests]_vars

\* C5: every request that names a patient id absent from the patient store is
\* answered 404, addTestForPatient and getTestsForPatient included (stated
\* here for ids that are well-formed ObjectIds and, for addTestForPatient,
\* bodies with a type of the enum and a value).
C5_AbsentPatientAnswers404 ==
    [][/\ (Handled("addTestForPatient") /\ IsObjectId(last'.params.id)
                /\ last'.params.id \notin DOMAIN patients
                /\ DOMAIN last'.body = {"type", "value"}
                /\ last'.body.type \in TestTypes) => last'.status = 404
       /\ (Handled("getTestsForPatient") /\ IsObjectId(last'.params.id)
                /\ last'.params.id \notin DOMAIN patients) => last'.status = 404]_vars

\* The ids of the documents of a response.
IdsOf(docs) == {docs[i].id : i \in 1..Len(docs)}

\* C6: a successful deletePatient(p) removes exactly the patient p: every
\* other patient and the test store are unchanged, and the tests of p are
\* still answered by getTestsForPatient(p) and getTestById afterwards.
C6_DeletePatientRemovesOnlyPatient ==
    [][/\ (Handled("deletePatient") /\ last'.status = 200) =>
            /\ last'.params.id \in DOMAIN patients
            /\ DOMAIN patients' = DOMAIN patients \ {last'.params.id}
            /\ \A q \in DOMAIN patients' : patients'[q] = patients[q]
            /\ tests' = tests
       /\ (Handled("getTestsForPatient") /\ last'.params.id \in removed) =>
            /\ last'.status = 200
            /\ IdsOf(last'.tests) = TestsOf(tests, last'.params.id)
       /\ (Handled("getTestById") /\ last'.params.testId \in DOMAIN tests
                /\ tests[last'.params.testId].patientId \in removed) =>
            /\ last'.status = 200
            /\ last'.tests = <<TestDoc(tests, last'.params.testId)>>]_vars

\* The tests of a deleted patient were listed, and there is one, while
\* another patient is still in the store.
C6_Witness ==
    /\ last.op = "getTestsForPatient" /\ last.status = 200
    /\ last.params.id \in removed
    /\ Len(last.tests) >= 1
    /\ DOMAIN patients # {}

\* C7: addPatient with name, age and gender adds exactly one patient, under
\* an id no patient of the store has, answers 201 with the stored record,
\* which carries the submitted fields and criticalCondition false when the
\* body gives none; with a required field missing it answers 400 and the
\* patient store is unchanged.
C7_AddPatient ==
    [][Handled("addPatient") =>
        IF {"name", "age", "gender"} \subseteq DOMAIN last'.body
        THEN /\ last'.status = 201
             /\ \E id \in DOMAIN patients' \ DOMAIN patients :
                    /\ DOMAIN patients' = DOMAIN patients \cup {id}
                    /\ \A q \in DOMAIN patients : patients'[q] = patients[q]
                    /\ last'.patients = <<PatientDoc(patients', id)>>
                    /\ \A f \in DOMAIN last'.body : patients'[id][f] = last'.body[f]
                    /\ "criticalCondition" \notin DOMAIN last'.body =>
                            patients'[id].criticalCondition = FALSE
        ELSE /\ last'.status = 400
             /\ patients' = patients]_vars

\* A second patient was added, without a flag in the body, after the first
\* one had been deleted.
C7_Witness ==
    /\ last.op = "addPatient" /\ last.status = 201
    /\ "criticalCondition" \notin DOMAIN last.body
    /\ removed # {}
    /\ last.patients[1].id \in DOMAIN patients
    /\ patients[last.patients[1].id].criticalCondition = FALSE

\* C8: getAllPatients returns exactly the patients addPatient created and
\* deletePatient has not removed, each once and with its current fields; and
\* addTestForPatient, updateTest, deleteTest and updatePatient neither add
\* nor remove a patient.
C8_ListIsCreatedMinusRemoved ==
    /\ [](last.op = "getAllPatients" =>
            /\ last.status = 200
            /\ IdsOf(last.patients) = created \ removed
            /\ Len(last.patients) = Cardinality(created \ removed)
            /\ \A i \in 1..Len(last.patients) :
                    last.patients[i] = PatientDoc(patients, last.patients[i].id))
    /\ [][\A op \in {"addTestForPatient", "updateTest", "deleteTest", "updatePatient"} :
            Handled(op) => DOMAIN patients' = DOMAIN patients]_vars

\* The list was taken after a deletion and holds the one patient that is left,
\* whose flag is set.
C8_Witness ==
    /\ last.op = "getAllPatients"
    /\ removed # {}
    /\ Len(last.patients) = 1
    /\ last.patients[1].criticalCondition = TRUE

\* C9: getTestsForPatient(p) and the tests of getPatientHistory(p) are
\* exactly the tests of the store whose patientId is p, each once, dates
\* descending: of two adjacent entries the first is dated no earlier.
C9_TestsOfPatientNewestFirst ==
    (last.op \in {"getTestsForPatient", "getPatientHistory"} /\ last.status = 200) =>
        /\ IdsOf(last.tests) = {t \in DOMAIN tests : tests[t].patientId = last.params.id}
        /\ Len(last.tests) = Cardinality(IdsOf(last.tests))
        /\ \A i \in 1..Len(last.tests) :
            LET d == last.tests[i]
            IN  /\ d.type = tests[d.id].type
                /\ d.value = tests[d.id].value
                /\ d.date = tests[d.id].date
        /\ \A i \in 1..(Len(last.tests) - 1) : last.tests[i].date >= last.tests[i + 1].date

\* Two tests of one patient, of different dates, were listed newest first.
C9_Witness ==
    /\ last.op = "getTestsForPatient" /\ last.status = 200
    /\ Len(last.tests) = 2
    /\ last.tests[1].date > last.tests[2].date

\* C10: getCriticalPatients returns exactly the patients of the store whose
\* flag is true at that time, each once.
C10_CriticalListIsFlagged ==
    last.op = "getCriticalPatients" =>
        /\ last.status = 200
        /\ IdsOf(last.patients) =
              {p \in DOMAIN patients : patients[p].criticalCondition = TRUE}
        /\ Len(last.patients) = Cardinality(IdsOf(last.patients))
        /\ \A i \in 1..Len(last.patients) :
                last.patients[i] = PatientDoc(patients, last.patients[i].id)

\* One of two patients was returned; the other one's flag is false.
C10_Witness ==
    /\ last.op = "getCriticalPatients"
    /\ Len(last.patients) = 1
    /\ Cardinality(DOMAIN patients) = 2

\* C11: a successful updatePatient(p, payload) sets the fields of p that the
\* payload holds to the payload's values and leaves the other fields of p,
\* every other patient and every test as they were, and answers with the
\* updated record; the payload may hold criticalCondition, and a flag of p
\* changes only in a successful addTestForPatient for p or in an updatePatient
\* of p whose payload holds the flag: updateTest, deleteTest and the removal
\* of another patient leave it in place.
C11_UpdatePatientFrame ==
    [][/\ (Handled("updatePatient") /\ last'.status = 200) =>
            LET p == last'.params.id
                payload == last'.body
            IN  /\ p \in DOMAIN patients
                /\ DOMAIN patients' = DOMAIN patients
                /\ \A f \in DOMAIN patients[p] :
                        patients'[p][f] =
                            IF f \in DOMAIN payload THEN payload[f] ELSE patients[p][f]
                /\ \A q \in DOMAIN patients \ {p} : patients'[q] = patients[q]
                /\ tests' = tests
                /\ last'.patients = <<PatientDoc(patients', p)>>
       /\ \A p \in DOMAIN patients \cap DOMAIN patients' :
            patients'[p].criticalCondition # patients[p].criticalCondition =>
                \/ /\ Handled("addTestForPatient")
                   /\ last'.params.id = p
                   /\ last'.status = 201
                \/ /\ Handled("updatePatient")
                   /\ last'.params.id = p
                   /\ "criticalCondition" \in DOMAIN last'.body]_vars

\* The name and age of a patient were updated: the flag a "200/70" test had
\* set is still true, and the other patient keeps the name it was added with.
C11_Witness ==
    /\ last.op = "updatePatient" /\ last.status = 200
    /\ DOMAIN last.body = {"name", "age"}
    /\ LET p == last.params.id
       IN  /\ patients[p].name = "John Updated"
           /\ patients[p].gender = "male"
           /\ patients[p].criticalCondition = TRUE
           /\ TestsOf(tests, p) # {}
           /\ \E q \in DOMAIN patients \ {p} : patients[q].name = "John Doe"

\* C12: nothing serialises the recomputation of concurrent addTestForPatient
\* requests: the write of the flag that ends a request writes the
\* classification of the test that request's own find of the latest test
\* returned, whatever has been saved since, so the last write wins; two
\* requests for one patient can therefore both complete and leave the flag at
\* the classification of the older of their tests, not of the most recent.
C12_LastWriteWins ==
    [][\A r \in DOMAIN requests :
        (/\ requests[r].op = "addTestForPatient"
         /\ requests[r].pc = "writeFlag"
         /\ requests'[r].pc = "done"
         /\ requests'[r].status = 201
         /\ requests[r].params.id \in DOMAIN patients) =>
            /\ patients'[requests[r].params.id].criticalCondition =
                  IsCritical(requests[r].found[1].type, requests[r].found[1].value)
            /\ \A q \in DOMAIN patients \ {requests[r].params.id} :
                    patients'[q] = patients[q]]_vars

\* Two requests for one patient have both been answered 201; the test of the
\* second is the patient's most recent and is "110/70", and the flag is true,
\* the classification of the first one's older "200/70".
C12_Witness ==
    /\ Len(requests) = 2
    /\ \A r \in 1..2 : requests[r].pc = "done" /\ requests[r].status = 201
    /\ requests[1].params.id = requests[2].params.id
    /\ requests[1].params.id \in DOMAIN patients
    /\ LET p == requests[1].params.id
           older == CHOOSE t \in requests[1].saved : TRUE
           newer == CHOOSE t \in requests[2].saved : TRUE
       IN  /\ tests[older].date < tests[newer].date
           /\ LatestOf(p) = {newer}
           /\ tests[older].value = Critical200over70
           /\ tests[newer].value = Normal110over70
           /\ patients[p].criticalCondition = TRUE
           /\ IsCritical(tests[newer].type, tests[newer].value) = FALSE

\* C13: addTestForPatient for an existing patient with a type of the enum and
\* a value that is not numeric (for a blood pressure, not two numbers around a "/") fails in the
\* recomputation and is answered 400.
C13_NonNumericValueAnswers400 ==
    [][(/\ Handled("addTestForPatient")
        /\ last'.params.id \in DOMAIN patients
        /\ DOMAIN last'.body = {"type", "value"}
        /\ last'.body.type \in TestTypes
        /\ \E i \in 1..Len(last'.body.value) :
                last'.body.value[i] \notin DigitChars \cup {"/"}) =>
            last'.status = 400]_vars

\* The flag of patient p of the store ps is the classification of a most
\* recent test of p in the store ts; a patient without tests has no most
\* recent test and nothing is asked of its flag.
FlagIsOfLatest(ps, ts, p) ==
    \/ TestsOf(ts, p) = {}
    \/ \E t \in TestsOf(ts, p) :
        /\ \A u \in TestsOf(ts, p) : ts[u].date <= ts[t].date
        /\ ps[p].criticalCondition = IsCritical(ts[t].type, ts[t].value)

\* A successful updateTest or deleteTest of test t, whose patient is in the
\* store with its flag the classification of its most recent test.
EditsTestOf(t, p) ==
    /\ Handled("updateTest") \/ Handled("deleteTest")
    /\ last'.status = 200
    /\ last'.params.testId = t
    /\ tests[t].patientId = p
    /\ p \in DOMAIN patients
    /\ FlagIsOfLatest(patients, tests, p)

\* C14 as stated: from a state where the flag of the owning patient is the
\* classification of its most recent test, every successful updateTest or
\* deleteTest leads to a state where it is not.
C14_EveryEditBreaksInvariant ==
    [][\A t \in DOMAIN tests : \A p \in PatientIds :
        EditsTestOf(t, p) => ~FlagIsOfLatest(patients', tests', p)]_vars

\* C14: updateTest and deleteTest leave the flag of the owning patient as it
\* was, so from a state where the flag is the classification of the most
\* recent test an edit or deletion can lead to a state where it is not, and
\* does so exactly when afterwards the patient still has a test and no most
\* recent one has the flag as its classification: always when the only most
\* recent test is given a value of the other classification, never when a
\* test that is not a most recent one is deleted.
C14_EditsCanBreakInvariant ==
    [][\A t \in DOMAIN tests : \A p \in PatientIds :
        EditsTestOf(t, p) =>
            /\ patients'[p].criticalCondition = patients[p].criticalCondition
            /\ FlagIsOfLatest(patients', tests', p) <=>
                    FlagIsOfLatest(patients, tests', p)
            /\ (/\ Handled("updateTest")
                /\ LatestOf(p) = {t}
                /\ IsCritical(tests'[t].type, tests'[t].value) #
                        IsCritical(tests[t].type, tests[t].value)) =>
                    ~FlagIsOfLatest(patients', tests', p)
            /\ (Handled("deleteTest") /\ t \notin LatestOf(p)) =>
                    FlagIsOfLatest(patients', tests', p)]_vars

\* A test was deleted and the flag of its patient is still true, while the
\* one test the patient has left is "110/70".
C14_Witness ==
    /\ last.op = "deleteTest" /\ last.status = 200
    /\ \E p \in DOMAIN patients :
        /\ patients[p].criticalCondition = TRUE
        /\ \E t \in DOMAIN tests :
            /\ TestsOf(tests, p) = {t}
            /\ tests[t].value = Normal110over70
        /\ ~FlagIsOfLatest(patients, tests, p)

\* C15: addTestForPatient is all-or-nothing: a request answered 400 (the type
\* missing or outside the enum, the value missing, or a failure of the
\* recomputation after the save) has added no test and changed no flag, and a
\* request answered 201 has added exactly one test, with the request's
\* patient id, type and value.
C15_AddTestAllOrNothing ==
    \A r \in DOMAIN requests :
        (requests[r].op = "addTestForPatient" /\ requests[r].pc = "done") =>
            /\ requests[r].status \in {201, 400}
            /\ requests[r].status = 400 =>
                /\ requests[r].saved = {}
                /\ requests[r].flagged = {}
            /\ requests[r].status = 201 =>
                /\ Cardinality(requests[r].saved) = 1
                /\ \A t \in requests[r].saved :
                    /\ t \in DOMAIN tests
                    /\ tests[t].patientId = requests[r].params.id
                    /\ tests[t].type = requests[r].body.type
                    /\ tests[t].value = requests[r].body.value

\* The patient id of the path: :patientId of the getTestById route, :id of
\* the other two.
PathPatient(params) ==
    IF "patientId" \in DOMAIN params THEN params.patientId ELSE params.id

\* C16: getTestById, updateTest and deleteTest on /patients/p/tests/t, where
\* test t is in the store and its patientId is not p, do not return, modify
\* or delete t.
C16_TestOfAnotherPatientUntouched ==
    [][\A op \in TestLookups :
        (/\ Handled(op)
         /\ last'.params.testId \in DOMAIN tests
         /\ tests[last'.params.testId].patientId # PathPatient(last'.params)) =>
            /\ tests' = tests
            /\ last'.tests = <<>>
            /\ last'.status # 200]_vars

\* C17: every request to every handler gets exactly one response, on every
\* path (success, not found, validation failure, database failure), and its
\* handler then does nothing more, provided every database call settles: no
\* request has two responses, a finished handler has sent one, an unfinished
\* one none, and every request received is eventually finished.
C17_ExactlyOneResponse ==
    /\ [](\A r \in DOMAIN requests :
            /\ requests[r].sent <= 1
            /\ requests[r].pc = "done" <=> requests[r].sent = 1
            /\ requests[r].sent = 1 =>
                    requests[r].status \in {200, 201, 400, 404, 500})
    /\ [][\A r \in DOMAIN requests :
            requests[r].pc = "done" => requests'[r] = requests[r]]_vars
    /\ \A r \in 1..MaxRequests :
            (r \in DOMAIN requests) ~>
                (r \in DOMAIN requests /\ requests[r].pc = "done" /\ requests[r].sent = 1)

\* Two requests are finished with one response each: an addTestForPatient
\* answered 400 by the catch block after its test was saved, and a request
\* answered 404.
C17_Witness ==
    /\ Len(requests) = 2
    /\ \A r \in 1..2 : requests[r].pc = "done" /\ requests[r].sent = 1
    /\ requests[1].op = "addTestForPatient"
    /\ requests[1].status = 400
    /\ requests[1].saved # {}
    /\ requests[2].status = 404

====
